---- MODULE Spec2Model ----
(***************************************************************************)
(* Model of the Google-Sheets ETL pipeline of src/etl_pipeline.py:         *)
(* transform_data (the normalizer), load_to_postgresql (batched upsert in  *)
(* one transaction), load_to_mongodb (delete-all, insert-all, unique       *)
(* index) and run_etl_pipeline (the orchestrator).                         *)
(*                                                                         *)
(* Strings are sequences of one-character strings, so that trimming,       *)
(* printing and parsing of numbers are computed and not assumed.  Numbers  *)
(* are integers (the alphabet of the inputs has no decimal point).  Time   *)
(* is the number of the run: CURRENT_TIMESTAMP and datetime.now() of one   *)
(* run are later than those of every earlier run.                          *)
(***************************************************************************)
EXTENDS Integers, Sequences, FiniteSets, TLC

VARIABLES
  sheet,     \* the spreadsheet: [columns, rows] as get_all_records() reads it
  pc,        \* position of the program: orchestrator stage and loader step
  run,       \* number of the current invocation of the entry point
  df_raw,    \* run_etl_pipeline.df_raw: [columns, rows] handed over by extraction
  df,        \* df_transformed: the sequence of canonical records
  err,       \* the exception that propagated out of the last failed stage
  pg,        \* committed state of the relational store: [exists, rows]
  tx,        \* state seen inside the open transaction of conn
  conn,      \* load_to_postgresql.conn: "none", "open", "closed"
  i,         \* load_to_postgresql: start of the next batch (0-based)
  batches,   \* the execute_values calls of this loader call: <<first, last>>
  mongo,     \* committed state of the collection: [docs, unique]
  client,    \* load_to_mongodb.client: "none", "open", "closed"
  records,   \* load_to_mongodb.records: the stamped documents
  trace,     \* stages entered and store calls made by the current run, in order
  log        \* etl_pipeline.log: the closing line of every run so far

vars == <<sheet, pc, run, df_raw, df, err, pg, tx, conn, i, batches, mongo,
          client, records, trace, log>>

----------------------------------------------------------------------------
(* Bounds of the model *)

\* longest raw dataset handed to transform_data in SpecT
MaxRows == 2
\* longest raw dataset handed to the whole pipeline in Spec
MaxPipeRows == 2
\* invocations of the entry point in one behaviour
MaxRuns == 2
\* most batches of one call of load_to_postgresql in SpecPG
MaxBatches == 3

----------------------------------------------------------------------------
(* Strings *)

Digits == <<"0", "1", "2", "3", "4", "5", "6", "7", "8", "9">>

IsSpace(c) == c = " "

DigitVal(c) == (CHOOSE k \in 1..10 : Digits[k] = c) - 1

IsDigit(c) == \E k \in 1..10 : Digits[k] = c

RECURSIVE lstrip(_)
lstrip(s) == IF s # <<>> /\ IsSpace(Head(s)) THEN lstrip(Tail(s)) ELSE s

RECURSIVE rstrip(_)
rstrip(s) ==
  IF s # <<>> /\ IsSpace(s[Len(s)]) THEN rstrip(SubSeq(s, 1, Len(s) - 1)) ELSE s

\* str.strip(): leading and trailing whitespace removed
strip(s) == rstrip(lstrip(s))

\* str(n) of a non-negative integer
RECURSIVE NatStr(_)
NatStr(n) == IF n < 10 THEN <<Digits[n + 1]>>
             ELSE NatStr(n \div 10) \o <<Digits[(n % 10) + 1]>>

\* str(n) of an integer
IntStr(n) == IF n < 0 THEN <<"-">> \o NatStr(0 - n) ELSE NatStr(n)

\* value of a non-empty sequence of digits
RECURSIVE DigitsVal(_)
DigitsVal(s) == IF Len(s) = 1 THEN DigitVal(s[1])
                ELSE 10 * DigitsVal(SubSeq(s, 1, Len(s) - 1)) + DigitVal(s[Len(s)])

AllDigits(s) == s # <<>> /\ \A k \in 1..Len(s) : IsDigit(s[k])

----------------------------------------------------------------------------
(* Cells of the raw dataset: empty (None/NaN), text or number *)

Null == [kind |-> "null", s |-> <<>>, n |-> 0]
Str(s) == [kind |-> "str", s |-> s, n |-> 0]
Num(n) == [kind |-> "num", s |-> <<>>, n |-> n]

\* the v of NaN is no number of the data: -1 stands for it until fillna
NaN == [nan |-> TRUE, v |-> -1]
Val(n) == [nan |-> FALSE, v |-> n]

\* Series.astype(str) of one cell
astype_str(c) ==
  CASE c.kind = "str" -> c.s
    [] c.kind = "num" -> IntStr(c.n)
    [] c.kind = "null" -> <<"n", "a", "n">>

\* float(text): optional sign and digits between optional whitespace
parse_number(s) ==
  LET t == strip(s)
      signed == t # <<>> /\ Head(t) \in {"-", "+"}
      body == IF signed THEN Tail(t) ELSE t
  IN  IF ~AllDigits(body) THEN NaN
      ELSE IF signed /\ Head(t) = "-" THEN Val(0 - DigitsVal(body))
      ELSE Val(DigitsVal(body))

\* pd.to_numeric(..., errors='coerce') of one cell
to_numeric(c) ==
  CASE c.kind = "num" -> Val(c.n)
    [] c.kind = "null" -> NaN
    [] c.kind = "str" -> parse_number(c.s)

\* Series.fillna(0) of one value
fillna(x, d) == IF x.nan THEN d ELSE x.v

\* replace_empty left out
replace_empty_none(s) == s

\* Series.replace('', 'Unknown') of one value
Unknown == <<"U", "n", "k", "n", "o", "w", "n">>
replace_empty(s) == IF s = <<>> THEN Unknown ELSE s

----------------------------------------------------------------------------
(* transform_data *)

required_columns ==
  <<"id", "quantity", "product_name", "total_amount", "payment_method",
    "customer_type">>

Required == {required_columns[k] : k \in 1..Len(required_columns)}

\* missing_columns that reports the whole list when any column is absent
missing_columns_all(d) ==
  IF \E c \in Required : c \notin d.columns THEN required_columns ELSE <<>>

\* the required columns that the dataset lacks, in the order of the list
missing_columns(d) ==
  SelectSeq(required_columns, LAMBDA c : c \notin d.columns)

\* df[required_columns]: the projection of one row, with its index label
project(d, k) ==
  [index |-> k - 1,
   id |-> d.rows[k]["id"],
   quantity |-> d.rows[k]["quantity"],
   product_name |-> d.rows[k]["product_name"],
   total_amount |-> d.rows[k]["total_amount"],
   payment_method |-> d.rows[k]["payment_method"],
   customer_type |-> d.rows[k]["customer_type"]]

\* keeps_id without .str.strip() in the filter
keeps_id_unstripped(c) == c.kind # "null" /\ astype_str(c) # <<>>

\* dropna(subset=['id']) and the filter astype(str).str.strip() != ''
keeps_id(c) == c.kind # "null" /\ strip(astype_str(c)) # <<>>

\* clean_row with the two numeric columns read from each other's cells
clean_row_swapped(r) ==
  [index |-> r.index,
   id |-> strip(astype_str(r.id)),
   quantity |-> fillna(to_numeric(r.total_amount), 0),
   product_name |-> replace_empty(strip(astype_str(r.product_name))),
   total_amount |-> fillna(to_numeric(r.quantity), 0),
   payment_method |-> replace_empty(strip(astype_str(r.payment_method))),
   customer_type |-> replace_empty(strip(astype_str(r.customer_type)))]

\* clean_row with negative quantities replaced by 0
clean_row_clamped(r) ==
  [index |-> r.index,
   id |-> strip(astype_str(r.id)),
   quantity |-> IF fillna(to_numeric(r.quantity), 0) < 0 THEN 0
                ELSE fillna(to_numeric(r.quantity), 0),
   product_name |-> replace_empty(strip(astype_str(r.product_name))),
   total_amount |-> fillna(to_numeric(r.total_amount), 0),
   payment_method |-> replace_empty(strip(astype_str(r.payment_method))),
   customer_type |-> replace_empty(strip(astype_str(r.customer_type)))]

\* the type conversions and defaults of one surviving row
clean_row(r) ==
  [index |-> r.index,
   id |-> strip(astype_str(r.id)),
   quantity |-> fillna(to_numeric(r.quantity), 0),
   product_name |-> replace_empty(strip(astype_str(r.product_name))),
   total_amount |-> fillna(to_numeric(r.total_amount), 0),
   payment_method |-> replace_empty(strip(astype_str(r.payment_method))),
   customer_type |-> replace_empty(strip(astype_str(r.customer_type)))]

\* transformed with drop_duplicates(subset=['id']) after the cleaning: of the
\* records of one id only the first is kept
transformed_dedup(d) ==
  LET selected == [k \in 1..Len(d.rows) |-> project(d, k)]
      cleaned == SelectSeq(selected, LAMBDA r : keeps_id(r.id))
      all == [k \in 1..Len(cleaned) |-> clean_row(cleaned[k])]
      first(k) == \A j \in 1..(k - 1) : all[j].id # all[k].id
      firsts == SelectSeq([k \in 1..Len(all) |-> k], first)
  IN  [k \in 1..Len(firsts) |-> all[firsts[k]]]

\* the value transform_data returns when the required columns are present
transformed(d) ==
  LET selected == [k \in 1..Len(d.rows) |-> project(d, k)]
      cleaned == SelectSeq(selected, LAMBDA r : keeps_id(r.id))
  IN  [k \in 1..Len(cleaned) |-> clean_row(cleaned[k])]

----------------------------------------------------------------------------
(* load_to_postgresql *)

batch_size == 1000

\* psycopg2.extras.execute_values(cur, sql, argslist, page_size=100): the
\* argument list is sent as one INSERT statement per page
page_size == 100

Min(a, b) == IF a < b THEN a ELSE b

NoTable == [exists |-> FALSE, rows |-> {}]
EmptyTable == [exists |-> TRUE, rows |-> {}]

\* the tuples built from the frame by iterrows()
data_tuples(d) ==
  [k \in 1..Len(d) |->
     [id |-> d[k].id,
      quantity |-> d[k].quantity,
      product_name |-> d[k].product_name,
      total_amount |-> d[k].total_amount,
      payment_method |-> d[k].payment_method,
      customer_type |-> d[k].customer_type]]

\* drop_table left out: the table of the earlier run is kept
drop_table_kept(t) == t

\* DROP TABLE IF EXISTS sales_data
drop_table(t) == NoTable

\* CREATE TABLE IF NOT EXISTS sales_data (id ... PRIMARY KEY, ...)
create_table(t) == IF t.exists THEN t ELSE EmptyTable

\* batch_range with the slice data_tuples[i:i + batch_size - 1]
batch_range_short(n, start) == <<start + 1, Min(start + batch_size - 1, n)>>

\* data_tuples[i:i + batch_size], as the 1-based positions <<first, last>>
batch_range(n, start) == <<start + 1, Min(start + batch_size, n)>>

SeqIds(s) == {s[k].id : k \in 1..Len(s)}

\* a statement that proposes the same id twice is rejected ("ON CONFLICT DO
\* UPDATE command cannot affect row a second time")
page_ok(page) == Cardinality(SeqIds(page)) = Len(page)

\* INSERT ... ON CONFLICT (id) DO UPDATE SET ... of one row into the rows of
\* the table; created_at is DEFAULT CURRENT_TIMESTAMP and is not in the SET list
upsert_row(rows, ids, t, now) ==
  IF t.id \in ids
  THEN LET old == CHOOSE r \in rows : r.id = t.id
       IN  [old EXCEPT !.quantity = t.quantity,
                       !.product_name = t.product_name,
                       !.total_amount = t.total_amount,
                       !.payment_method = t.payment_method,
                       !.customer_type = t.customer_type]
  ELSE [id |-> t.id,
        quantity |-> t.quantity,
        product_name |-> t.product_name,
        total_amount |-> t.total_amount,
        payment_method |-> t.payment_method,
        customer_type |-> t.customer_type,
        created_at |-> now]

\* one INSERT statement with the rows of one page, none of them twice
upsert_page(rows, page, now) ==
  LET ids == {r.id : r \in rows}
      incoming == SeqIds(page)
  IN  {r \in rows : r.id \notin incoming}
        \cup {upsert_row(rows, ids, page[k], now) : k \in 1..Len(page)}

\* execute_values(cursor, insert_query, batch): page after page; the first
\* rejected page raises and the later pages are not sent
RECURSIVE execute_values(_, _, _)
execute_values(t, batch, now) ==
  IF ~t.ok \/ batch = <<>> THEN t
  ELSE LET m == Min(page_size, Len(batch))
           page == SubSeq(batch, 1, m)
           rest == SubSeq(batch, m + 1, Len(batch))
       IN  IF ~page_ok(page) THEN [ok |-> FALSE, rows |-> t.rows]
           ELSE execute_values([ok |-> TRUE,
                                rows |-> upsert_page(t.rows, page, now)],
                               rest, now)

----------------------------------------------------------------------------
(* load_to_mongodb *)

EmptyCollection == [docs |-> <<>>, unique |-> FALSE]

\* df.to_dict('records') with inserted_at = datetime.now(timezone.utc)
stamped(d, now) ==
  [k \in 1..Len(d) |->
     [id |-> d[k].id,
      quantity |-> d[k].quantity,
      product_name |-> d[k].product_name,
      total_amount |-> d[k].total_amount,
      payment_method |-> d[k].payment_method,
      customer_type |-> d[k].customer_type,
      inserted_at |-> now]]

\* the documents insert_many (ordered) writes before it stops: all of them,
\* or those before the first one that the unique index on id rejects
accepted(docs, unique, recs) ==
  IF ~unique THEN Len(recs)
  ELSE LET clash(k) == \/ recs[k].id \in SeqIds(docs)
                       \/ \E j \in 1..(k - 1) : recs[j].id = recs[k].id
       IN  IF \E k \in 1..Len(recs) : clash(k)
           THEN (CHOOSE k \in 1..Len(recs) :
                   clash(k) /\ \A j \in 1..(k - 1) : ~clash(j)) - 1
           ELSE Len(recs)

\* create_index without unique=True: the index is built over any documents
index_ok_any(docs) == TRUE

\* create_index('id', unique=True) builds the index only over distinct ids
index_ok(docs) == Cardinality(SeqIds(docs)) = Len(docs)

----------------------------------------------------------------------------
(* The program *)

NoFrame == [columns |-> {}, rows |-> <<>>]
NoError == [type |-> "none", missing |-> <<>>]
Error(t) == [type |-> t, missing |-> <<>>]

\* the orchestrator's stage at a position of the program
Stage(p) ==
  CASE p \in {"pg_connect", "pg_drop", "pg_create", "pg_commit", "pg_batch"}
         -> "LoadingRelational"
    [] p \in {"mongo_connect", "mongo_delete", "mongo_insert", "mongo_index"}
         -> "LoadingDocument"
    [] OTHER -> p

\* Raise without the raise: the error is logged and the next stages go on
Raise_swallowed(e) == /\ pc' = "mongo_connect"
                      /\ err' = e
                      /\ log' = Append(log, "FAILED")

\* except Exception in run_etl_pipeline: log and re-raise
Raise(e) == /\ pc' = "Failed"
            /\ err' = e
            /\ log' = Append(log, "FAILED")

\* pg_except with conn.commit() in the handler in place of conn.rollback()
pg_except_commits(calls) ==
  /\ Raise(Error("psycopg2.Error"))
  /\ pg' = tx
  /\ tx' = tx
  /\ conn' = "closed"
  /\ trace' = trace \o calls \o <<"pg.commit", "pg.close">>
  /\ UNCHANGED <<sheet, run, df_raw, df, i, mongo, client, records>>

\* pg_except without the finally block: the connection is left open
pg_except_leaks(calls) ==
  /\ Raise(Error("psycopg2.Error"))
  /\ tx' = pg
  /\ conn' = conn
  /\ trace' = trace \o calls \o <<"pg.rollback">>
  /\ UNCHANGED <<sheet, run, df_raw, df, pg, i, mongo, client, records>>

\* except psycopg2.Error: rollback, then finally: cursor.close(), conn.close()
pg_except(calls) ==
  /\ Raise(Error("psycopg2.Error"))
  /\ tx' = pg
  /\ conn' = "closed"
  /\ trace' = trace \o calls \o <<"pg.rollback", "pg.close">>
  /\ UNCHANGED <<sheet, run, df_raw, df, pg, i, mongo, client, records>>

\* mongo_except that undoes the relational load of the run
mongo_except_compensates(e, calls) ==
  /\ Raise(Error(e))
  /\ client' = "closed"
  /\ pg' = [pg EXCEPT !.rows = {}]
  /\ tx' = pg'
  /\ trace' = trace \o calls \o <<"mongo.close">>
  /\ UNCHANGED <<sheet, run, df_raw, df, conn, i, batches, records>>

\* mongo_except without the raise: the loader returns and the orchestrator
\* logs completion
mongo_except_swallows(e, calls) ==
  /\ pc' = "Complete"
  /\ err' = Error(e)
  /\ log' = Append(log, "COMPLETED")
  /\ client' = "closed"
  /\ trace' = trace \o calls \o <<"mongo.close">>
  /\ UNCHANGED <<sheet, run, df_raw, df, pg, tx, conn, i, batches, records>>

\* except Exception in load_to_mongodb, then finally: client.close()
mongo_except(e, calls) ==
  /\ Raise(Error(e))
  /\ client' = "closed"
  /\ trace' = trace \o calls \o <<"mongo.close">>
  /\ UNCHANGED <<sheet, run, df_raw, df, pg, tx, conn, i, batches, records>>

----------------------------------------------------------------------------
(* run_etl_pipeline and the steps of the stages it calls *)

\* the entry point is invoked: a fresh process with fresh locals
run_etl_pipeline ==
  /\ pc \in {"Idle", "Complete", "Failed"}
  /\ run < MaxRuns
  /\ run' = run + 1
  /\ pc' = "Extracting"
  /\ df_raw' = NoFrame
  /\ df' = <<>>
  /\ err' = NoError
  /\ tx' = pg
  /\ conn' = "none"
  /\ i' = 0
  /\ batches' = <<>>
  /\ client' = "none"
  /\ records' = <<>>
  /\ trace' = <<"extract_from_google_sheets">>
  /\ UNCHANGED <<sheet, pg, mongo, log>>

\* extract_from_google_sheets returns the sheet as a frame, or raises
extract_from_google_sheets ==
  /\ pc = "Extracting"
  /\ \E fault \in BOOLEAN :
       IF fault
       THEN /\ Raise(Error("ExtractError"))
            /\ UNCHANGED <<df_raw, trace>>
       ELSE /\ df_raw' = sheet
            /\ pc' = "Transforming"
            /\ trace' = Append(trace, "transform_data")
            /\ UNCHANGED <<err, log>>
  /\ UNCHANGED <<sheet, run, df, pg, tx, conn, i, batches, mongo, client, records>>

\* transform_data raises ValueError naming the missing columns, or returns
\* the cleaned frame
transform_data ==
  /\ pc = "Transforming"
  /\ IF missing_columns(df_raw) # <<>>
     THEN /\ Raise([type |-> "ValueError", missing |-> missing_columns(df_raw)])
          /\ UNCHANGED <<df, trace>>
     ELSE /\ df' = transformed(df_raw)
          /\ pc' = "pg_connect"
          /\ trace' = Append(trace, "load_to_postgresql")
          /\ UNCHANGED <<err, log>>
  /\ UNCHANGED <<sheet, run, df_raw, pg, tx, conn, i, batches, mongo, client, records>>

\* psycopg2.connect: on failure conn is still None, nothing to roll back or close
pg_connect ==
  /\ pc = "pg_connect"
  /\ \E fault \in BOOLEAN :
       IF fault
       THEN /\ Raise(Error("psycopg2.Error"))
            /\ trace' = Append(trace, "pg.connect")
            /\ UNCHANGED <<tx, conn>>
       ELSE /\ conn' = "open"
            /\ tx' = pg
            /\ pc' = "pg_drop"
            /\ trace' = Append(trace, "pg.connect")
            /\ UNCHANGED <<err, log>>
  /\ UNCHANGED <<sheet, run, df_raw, df, pg, i, batches, mongo, client, records>>

\* cursor.execute("DROP TABLE IF EXISTS sales_data;")
pg_drop ==
  /\ pc = "pg_drop"
  /\ \E fault \in BOOLEAN :
       IF fault
       THEN /\ pg_except(<<"pg.drop">>)
            /\ UNCHANGED batches
       ELSE /\ tx' = drop_table(tx)
            /\ pc' = "pg_create"
            /\ trace' = Append(trace, "pg.drop")
            /\ UNCHANGED <<sheet, run, df_raw, df, err, pg, conn, i, batches,
                           mongo, client, records, log>>

\* cursor.execute(create_table_query)
pg_create ==
  /\ pc = "pg_create"
  /\ \E fault \in BOOLEAN :
       IF fault
       THEN /\ pg_except(<<"pg.create">>)
            /\ UNCHANGED batches
       ELSE /\ tx' = create_table(tx)
            /\ pc' = "pg_commit"
            /\ trace' = Append(trace, "pg.create")
            /\ UNCHANGED <<sheet, run, df_raw, df, err, pg, conn, i, batches,
                           mongo, client, records, log>>

\* conn.commit() after the table is created; then the loop starts at i = 0
pg_commit ==
  /\ pc = "pg_commit"
  /\ \E fault \in BOOLEAN :
       IF fault
       THEN /\ pg_except(<<"pg.commit">>)
            /\ UNCHANGED batches
       ELSE /\ pg' = tx
            /\ pc' = "pg_batch"
            /\ i' = 0
            /\ trace' = Append(trace, "pg.commit")
            /\ UNCHANGED <<sheet, run, df_raw, df, err, tx, conn, batches,
                           mongo, client, records, log>>

\* one iteration of for i in range(0, len(data_tuples), batch_size): the
\* statements of the batch are rejected by the store or applied in the open
\* transaction
pg_batch ==
  /\ pc = "pg_batch"
  /\ i < Len(df)
  /\ LET tuples == data_tuples(df)
         range == batch_range(Len(tuples), i)
         batch == SubSeq(tuples, range[1], range[2])
         done == execute_values([ok |-> TRUE, rows |-> tx.rows], batch, run)
     IN  /\ batches' = Append(batches, range)
         /\ \E fault \in BOOLEAN :
              IF fault \/ ~done.ok
              THEN pg_except(<<"pg.execute_values">>)
              ELSE /\ tx' = [tx EXCEPT !.rows = done.rows]
                   /\ i' = i + batch_size
                   /\ trace' = Append(trace, "pg.execute_values")
                   /\ UNCHANGED <<sheet, pc, run, df_raw, df, err, pg, conn,
                                  mongo, client, records, log>>

\* the loop is over: conn.commit(), finally: close; the orchestrator goes on
\* to load_to_mongodb
pg_finish ==
  /\ pc = "pg_batch"
  /\ i >= Len(df)
  /\ \E fault \in BOOLEAN :
       IF fault
       THEN /\ pg_except(<<"pg.commit">>)
            /\ UNCHANGED batches
       ELSE /\ pg' = tx
            /\ conn' = "closed"
            /\ pc' = "mongo_connect"
            /\ trace' = trace \o <<"pg.commit", "pg.close", "load_to_mongodb">>
            /\ UNCHANGED <<sheet, run, df_raw, df, err, tx, i, batches, mongo,
                           client, records, log>>

\* MongoClient(uri), the collection handle and the stamping of the records;
\* on failure client is still None, nothing to close
mongo_connect ==
  /\ pc = "mongo_connect"
  /\ \E fault \in BOOLEAN :
       IF fault
       THEN /\ Raise(Error("PyMongoError"))
            /\ trace' = Append(trace, "mongo.connect")
            /\ UNCHANGED <<client, records>>
       ELSE /\ client' = "open"
            /\ records' = stamped(df, run)
            /\ pc' = "mongo_delete"
            /\ trace' = Append(trace, "mongo.connect")
            /\ UNCHANGED <<err, log>>
  /\ UNCHANGED <<sheet, run, df_raw, df, pg, tx, conn, i, batches, mongo>>

\* delete_many left out: the documents of the earlier run are kept
delete_many_none(c) == c

\* collection.delete_many({}): the indexes of the collection stay
delete_many(c) == [c EXCEPT !.docs = <<>>]

mongo_delete ==
  /\ pc = "mongo_delete"
  /\ \E fault \in BOOLEAN :
       IF fault
       THEN /\ mongo_except("PyMongoError", <<"mongo.delete_many">>)
            /\ UNCHANGED mongo
       ELSE /\ mongo' = delete_many(mongo)
            /\ pc' = "mongo_insert"
            /\ trace' = Append(trace, "mongo.delete_many")
            /\ UNCHANGED <<sheet, run, df_raw, df, err, pg, tx, conn, i,
                           batches, client, records, log>>

\* collection.insert_many(records): an empty list is refused before anything
\* is sent; otherwise the documents are written in order up to the first
\* rejected one, or up to the point where the call breaks
mongo_insert ==
  /\ pc = "mongo_insert"
  /\ IF records = <<>>
     THEN /\ mongo_except("TypeError", <<"mongo.insert_many">>)
          /\ UNCHANGED mongo
     ELSE LET most == accepted(mongo.docs, mongo.unique, records)
          IN  \E fault \in BOOLEAN : \E k \in 0..most :
                /\ ~fault => k = most
                /\ mongo' = [mongo EXCEPT !.docs = @ \o SubSeq(records, 1, k)]
                /\ IF fault \/ k < Len(records)
                   THEN mongo_except("PyMongoError", <<"mongo.insert_many">>)
                   ELSE /\ pc' = "mongo_index"
                        /\ trace' = Append(trace, "mongo.insert_many")
                        /\ UNCHANGED <<sheet, run, df_raw, df, err, pg, tx,
                                       conn, i, batches, client, records,
                                       log>>

\* collection.create_index('id', unique=True), finally: client.close(); the
\* orchestrator logs completion
mongo_index ==
  /\ pc = "mongo_index"
  /\ \E fault \in BOOLEAN :
       IF fault \/ ~index_ok(mongo.docs)
       THEN /\ mongo_except("PyMongoError", <<"mongo.create_index">>)
            /\ UNCHANGED mongo
       ELSE /\ mongo' = [mongo EXCEPT !.unique = TRUE]
            /\ client' = "closed"
            /\ pc' = "Complete"
            /\ log' = Append(log, "COMPLETED")
            /\ trace' = trace \o <<"mongo.create_index", "mongo.close">>
            /\ UNCHANGED <<sheet, run, df_raw, df, err, pg, tx, conn, i,
                           batches, records>>

----------------------------------------------------------------------------
(* Inputs *)

Cols == <<"id", "quantity", "product_name", "total_amount", "payment_method",
          "customer_type", "notes">>

\* one row of the sheet, as the mapping from column name to cell
Row(c) == [id |-> c[1], quantity |-> c[2], product_name |-> c[3],
           total_amount |-> c[4], payment_method |-> c[5],
           customer_type |-> c[6], notes |-> c[7]]

Restrict(r, cols) == [c \in cols |-> r[c]]

Frame(cols, rows) ==
  [columns |-> cols, rows |-> [k \in 1..Len(rows) |-> Restrict(rows[k], cols)]]

AllCols == {Cols[k] : k \in 1..Len(Cols)}

\* all sequences over S of length 0..n
RECURSIVE SeqsUpTo(_, _)
SeqsUpTo(S, n) ==
  IF n = 0 THEN {<<>>}
  ELSE LET shorter == SeqsUpTo(S, n - 1)
       IN  shorter \cup {Append(q, x) : q \in {t \in shorter : Len(t) = n - 1},
                                        x \in S}

RowA == Row(<<Str(<<" ", "a", " ">>), Str(<<"3">>), Str(<<"w">>),
              Str(<<"9">>), Str(<<"c">>), Str(<<"r">>), Str(<<"x">>)>>)
RowA2 == Row(<<Str(<<"a">>), Num(-5), Str(<<" ", "v">>), Num(2),
               Str(<<>>), Str(<<"r">>), Null>>)
RowB == Row(<<Num(7), Str(<<"b", "a", "d">>), Str(<<>>), Null,
              Str(<<"c">>), Str(<<" ">>), Null>>)
RowEmpty == Row(<<Str(<<" ">>), Str(<<"1">>), Str(<<"w">>), Str(<<"1">>),
                  Str(<<"c">>), Str(<<"r">>), Null>>)

PipeRows == {RowA, RowA2, RowB, RowEmpty}

\* the sheets of the pipeline: every non-empty sequence of the rows above
\* with all columns, one sheet without the columns quantity and customer_type,
\* and the empty sheet, which get_all_records() reads as a frame of no columns
PipeSheets ==
  {Frame(AllCols, rows) : rows \in SeqsUpTo(PipeRows, MaxPipeRows) \ {<<>>}}
    \cup {Frame(AllCols \ {"quantity", "customer_type"}, <<RowA>>), NoFrame}

\* what an earlier run of another sheet may have left in the stores
LegacyRow == [id |-> <<"z">>, quantity |-> 1, product_name |-> <<"w">>,
              total_amount |-> 1, payment_method |-> <<"c">>,
              customer_type |-> <<"r">>]
LegacyTable ==
  [exists |-> TRUE,
   rows |-> {upsert_row({}, {}, LegacyRow, 0),
             upsert_row({}, {}, [LegacyRow EXCEPT !.id = <<"a">>], 0)}]
LegacyCollection ==
  [docs |-> stamped(<<LegacyRow, [LegacyRow EXCEPT !.id = <<"a">>]>>, 0),
   unique |-> TRUE]

----------------------------------------------------------------------------
(* Specifications *)

Idle ==
  /\ pc = "Idle"
  /\ run = 0
  /\ df_raw = NoFrame
  /\ df = <<>>
  /\ err = NoError
  /\ conn = "none"
  /\ i = 0
  /\ batches = <<>>
  /\ client = "none"
  /\ records = <<>>
  /\ trace = <<>>
  /\ log = <<>>

\* the pipeline, run after run on one sheet, from fresh or used stores
Init ==
  /\ Idle
  /\ sheet \in PipeSheets
  /\ pg \in {NoTable, LegacyTable}
  /\ tx = pg
  /\ mongo \in {EmptyCollection, LegacyCollection}

Next ==
  \/ run_etl_pipeline
  \/ extract_from_google_sheets
  \/ transform_data
  \/ pg_connect
  \/ pg_drop
  \/ pg_create
  \/ pg_commit
  \/ pg_batch
  \/ pg_finish
  \/ mongo_connect
  \/ mongo_delete
  \/ mongo_insert
  \/ mongo_index

Spec == Init /\ [][Next]_vars

----------------------------------------------------------------------------
(* transform_data alone, on a wider choice of cells *)

IdCells ==
  {Null, Str(<<>>), Str(<<" ", " ">>), Str(<<"a", " ", "b">>), Str(<<"a">>),
   Num(-12)}

NumCells ==
  {Null, Str(<<>>), Str(<<" ", "4", "2", " ">>), Str(<<"-", "5">>),
   Str(<<"+", "1">>), Str(<<"b", "a", "d">>), Str(<<"-">>),
   Str(<<"1", " ", "2">>), Num(120)}

TextCells ==
  {Null, Str(<<" ">>), Str(<<" ", "w", " ">>), Str(<<"w", " ", "v">>),
   Num(3), Str(Unknown)}

\* the rows of the pipeline, and RowA with one cell replaced: every id cell,
\* every numeric cell as quantity, every text cell as product_name, and some
\* of them in the other numeric and text columns
TRows ==
  PipeRows
    \cup {[RowA EXCEPT !.id = c] : c \in IdCells}
    \cup {[RowA EXCEPT !.quantity = c] : c \in NumCells}
    \cup {[RowA EXCEPT !.product_name = c] : c \in TextCells}
    \cup {[RowA EXCEPT !.total_amount = Str(<<"-", "5">>)],
          [RowA EXCEPT !.total_amount = Str(<<"1", " ", "2">>)],
          [RowA EXCEPT !.payment_method = Null],
          [RowA EXCEPT !.customer_type = Str(<<" ", "w", " ">>)],
          [RowA EXCEPT !.customer_type = Num(3)]}

TSheets ==
  {Frame(AllCols, rows) : rows \in SeqsUpTo(TRows, MaxRows) \ {<<>>}}
    \cup {Frame(Required, <<RowA, RowB>>),
          Frame(AllCols \ {"quantity", "customer_type"}, <<RowA>>),
          Frame({"notes"}, <<RowA>>), NoFrame}

InitT ==
  /\ sheet \in TSheets
  /\ pc = "Transforming"
  /\ run = 1
  /\ df_raw = sheet
  /\ df = <<>>
  /\ err = NoError
  /\ pg = NoTable
  /\ tx = pg
  /\ conn = "none"
  /\ i = 0
  /\ batches = <<>>
  /\ mongo = EmptyCollection
  /\ client = "none"
  /\ records = <<>>
  /\ trace = <<"extract_from_google_sheets", "transform_data">>
  /\ log = <<>>

NextT == transform_data

SpecT == InitT /\ [][NextT]_vars

----------------------------------------------------------------------------
(* load_to_postgresql alone, on frames of several batches *)

\* a canonical frame of n records whose ids repeat with the given period
BigFrame(n, period) ==
  [k \in 1..n |->
     [index |-> k - 1,
      id |-> IntStr(((k - 1) % period) + 1),
      quantity |-> k,
      product_name |-> <<"w">>,
      total_amount |-> 2 * k,
      payment_method |-> <<"c">>,
      customer_type |-> <<"r">>]]

\* whole batches, and one record or half a batch more than whole batches
BigSizes ==
  {k * batch_size : k \in 0..MaxBatches}
    \cup {1, batch_size + 1, (MaxBatches - 1) * batch_size + 1,
          (MaxBatches - 1) * batch_size + batch_size \div 2}

\* frames of distinct ids, and frames in which an id comes again in another
\* batch, in another page of the same batch, and in the same page
BigFrames ==
  {BigFrame(n, MaxBatches * batch_size) : n \in BigSizes}
    \cup {BigFrame(batch_size + 1, batch_size),
          BigFrame(2 * batch_size, batch_size + page_size),
          BigFrame(page_size + 1, page_size),
          BigFrame(page_size, page_size \div 2)}

InitPG ==
  /\ df \in BigFrames
  /\ sheet = NoFrame
  /\ pc = "pg_connect"
  /\ run = 1
  /\ df_raw = NoFrame
  /\ err = NoError
  /\ pg \in {NoTable, LegacyTable}
  /\ tx = pg
  /\ conn = "none"
  /\ i = 0
  /\ batches = <<>>
  /\ mongo = EmptyCollection
  /\ client = "none"
  /\ records = <<>>
  /\ trace = <<"extract_from_google_sheets", "transform_data",
               "load_to_postgresql">>
  /\ log = <<>>

NextPG ==
  \/ pg_connect
  \/ pg_drop
  \/ pg_create
  \/ pg_commit
  \/ pg_batch
  \/ pg_finish

SpecPG == InitPG /\ [][NextPG]_vars

----------------------------------------------------------------------------
(* Claims about the batches of load_to_postgresql (SpecPG) *)

\* load_to_postgresql has returned to the orchestrator without an exception
PgReturned == pc \in {"mongo_connect", "mongo_delete", "mongo_insert",
                      "mongo_index", "Complete"}
                \/ (pc = "Failed" /\ Len(trace) > 0
                      /\ \E k \in 1..Len(trace) : trace[k] = "load_to_mongodb")

\* the loader has exited because execute_values of a batch raised
BatchFailed ==
  /\ pc = "Failed"
  /\ Len(trace) >= 3
  /\ trace[Len(trace) - 2] = "pg.execute_values"
  /\ batches # <<>>

Ids(rows) == {r.id : r \in rows}

\* C1 as stated: when the write of batch k fails, the table holds exactly the
\* rows of batches 1..k-1 once the loader has exited, and no later batch was
\* attempted.
C1_PriorBatchesCommitted ==
  BatchFailed =>
    LET k == Len(batches)
        tuples == data_tuples(df)
    IN  /\ pg.exists
        /\ Ids(pg.rows) = {tuples[j].id : j \in 1..(batches[k][1] - 1)}
        /\ batches[k] = batch_range(Len(tuples), (k - 1) * batch_size)

\* C1 amended: the batches share one transaction that is committed after the
\* last of them; when the write of batch k fails, the table exists and is
\* empty once the loader has exited (batches 1..k-1 are rolled back with batch
\* k), the connection is closed, and batch k is the last one attempted.
C1_AllBatchesRolledBack ==
  BatchFailed =>
    LET k == Len(batches)
    IN  /\ pg = EmptyTable
        /\ tx = pg
        /\ conn = "closed"
        /\ batches[k] = batch_range(Len(df), (k - 1) * batch_size)
        /\ \A j \in 1..k : batches[j][1] = (j - 1) * batch_size + 1

\* the second of three batches has failed after the first was written
C1_Witness ==
  /\ BatchFailed
  /\ Len(batches) = 2
  /\ Len(df) > 2 * batch_size
  /\ page_ok(SubSeq(data_tuples(df), 1, page_size))
  /\ pg = EmptyTable

\* C2: a successful call makes exactly ceil(n / batch_size) execute_values
\* calls, on consecutive slices of the input in input order, each of
\* batch_size records except possibly the last, which together hold every
\* record exactly once; no call when there is no record.
C2_Batching ==
  (PgReturned /\ pc # "Failed") =>
    LET n == Len(df)
        m == Len(batches)
        size(k) == batches[k][2] - batches[k][1] + 1
    IN  /\ m = (n + batch_size - 1) \div batch_size
        /\ n = 0 <=> m = 0
        /\ \A k \in 1..m : /\ size(k) >= 1
                           /\ size(k) = batch_size \/ k = m
                           /\ size(k) <= batch_size
        /\ m > 0 => batches[1][1] = 1 /\ batches[m][2] = n
        /\ \A k \in 1..(m - 1) : batches[k + 1][1] = batches[k][2] + 1
        /\ \A j \in 1..n :
             Cardinality({k \in 1..m : batches[k][1] <= j /\ j <= batches[k][2]}) = 1

\* 2500 records have been written as batches of 1000, 1000 and 500
C2_Witness ==
  /\ pc = "mongo_connect"
  /\ Len(df) = 2 * batch_size + batch_size \div 2
  /\ batches = <<<<1, batch_size>>, <<batch_size + 1, 2 * batch_size>>,
                 <<2 * batch_size + 1, 2 * batch_size + batch_size \div 2>>>>

----------------------------------------------------------------------------
(* Claims about the loaders and the orchestrator (Spec) *)

\* a row or document without its timestamp
Fields(r) ==
  [id |-> r.id, quantity |-> r.quantity, product_name |-> r.product_name,
   total_amount |-> r.total_amount, payment_method |-> r.payment_method,
   customer_type |-> r.customer_type]

\* the last record of the sequence that has the id
LastOf(tuples, id) ==
  tuples[CHOOSE j \in 1..Len(tuples) :
           /\ tuples[j].id = id
           /\ \A l \in (j + 1)..Len(tuples) : tuples[l].id # id]

\* C3: once load_to_postgresql has returned without an exception, the table
\* holds one row for each id of the input and no other, every row was
\* inserted in this run (nothing of the table before the run is left) and
\* carries the fields of the input record of its id; so it is on a second run
\* of the same records.
C3_RelationalContract ==
  PgReturned =>
    /\ pg.exists
    /\ Ids(pg.rows) = SeqIds(df)
    /\ Cardinality(pg.rows) = Cardinality(SeqIds(df))
    /\ \A r \in pg.rows : /\ r.created_at = run
                          /\ Fields(r) = LastOf(data_tuples(df), r.id)

\* the second run of the same sheet has loaded its rows after a first run
\* that completed
C3_Witness ==
  /\ run = 2
  /\ log = <<"COMPLETED">>
  /\ pc = "mongo_connect"
  /\ Cardinality(pg.rows) = 2
  /\ \A r \in pg.rows : r.created_at = 2

\* C4: once load_to_mongodb has returned without an exception, the
\* collection holds one document for each record of the input and no other,
\* no two of them with the same id, each stamped in this run, and the unique
\* index on id exists; so it is on a second run of the same records.
C4_DocumentContract ==
  pc = "Complete" =>
    /\ mongo.unique
    /\ Len(mongo.docs) = Len(df)
    /\ SeqIds(mongo.docs) = SeqIds(df)
    /\ Cardinality(SeqIds(mongo.docs)) = Len(mongo.docs)
    /\ \A k \in 1..Len(mongo.docs) :
         /\ mongo.docs[k].inserted_at = run
         /\ Fields(mongo.docs[k]) = data_tuples(df)[k]

\* the second run of the same sheet has completed after a first run that
\* completed
C4_Witness ==
  /\ run = 2
  /\ log = <<"COMPLETED", "COMPLETED">>
  /\ pc = "Complete"
  /\ Len(mongo.docs) = 2
  /\ \A k \in 1..Len(mongo.docs) : mongo.docs[k].inserted_at = 2

StageOrder ==
  {<<"Idle", "Extracting">>,
   <<"Extracting", "Transforming">>,
   <<"Transforming", "LoadingRelational">>,
   <<"LoadingRelational", "LoadingRelational">>,
   <<"LoadingRelational", "LoadingDocument">>,
   <<"LoadingDocument", "LoadingDocument">>,
   <<"LoadingDocument", "Complete">>,
   <<"Extracting", "Failed">>,
   <<"Transforming", "Failed">>,
   <<"LoadingRelational", "Failed">>,
   <<"LoadingDocument", "Failed">>,
   <<"Complete", "Extracting">>,
   <<"Failed", "Extracting">>}

C5_Step ==
  /\ <<Stage(pc), Stage(pc')>> \in StageOrder
  /\ Stage(pc') \in {"Extracting", "Failed", "Complete"} => pc' # pc
  /\ Stage(pc) # "LoadingRelational" => pg' = pg
  /\ Stage(pc) # "LoadingDocument" => mongo' = mongo
  /\ pc \in {"Failed", "Complete"} => run' = run + 1

\* C5: every step of a run stays in its stage, enters the next stage of
\* Extracting, Transforming, LoadingRelational, LoadingDocument, Complete, or
\* enters Failed; nothing leaves Failed or Complete but the start of the next
\* run; the relational store changes only in LoadingRelational and the
\* document store only in LoadingDocument.
C5_StageOrder == [][C5_Step]_vars

\* the relational load has failed and the documents of the earlier run are
\* still in the collection
C5_Witness ==
  /\ pc = "Failed"
  /\ trace[Len(trace)] = "pg.close"
  /\ mongo = LegacyCollection

\* C6: when the run has failed after load_to_postgresql returned, the table
\* still holds the rows this run wrote, one for each id of the input.
C6_NoCompensation ==
  (pc = "Failed" /\ PgReturned) =>
    /\ pg.exists
    /\ Ids(pg.rows) = SeqIds(df)
    /\ \A r \in pg.rows : r.created_at = run

\* the run has failed in the document load and the stores hold different ids
C6_Witness ==
  /\ pc = "Failed"
  /\ PgReturned
  /\ trace[Len(trace)] = "mongo.close"
  /\ pg.rows # {}
  /\ Ids(pg.rows) # SeqIds(mongo.docs)

----------------------------------------------------------------------------
(* Claims about transform_data (SpecT, and Spec for the stores) *)

\* empty or made of whitespace only
IsBlank(s) == \A k \in 1..Len(s) : s[k] = " "

\* no whitespace at either end
Trimmed(s) == s = <<>> \/ (s[1] # " " /\ s[Len(s)] # " ")

\* o is s without the whitespace at its two ends
TrimOf(s, o) ==
  /\ Trimmed(o)
  /\ \E a \in 0..Len(s) :
       /\ a + Len(o) <= Len(s)
       /\ SubSeq(s, a + 1, a + Len(o)) = o
       /\ \A j \in 1..a : s[j] = " "
       /\ \A j \in (a + Len(o) + 1)..Len(s) : s[j] = " "

\* the numbers a text denotes: one if it is an optionally signed row of
\* digits between whitespace, none otherwise
TextValues(s) ==
  UNION {LET t == SubSeq(s, a, b)
             d == IF t[1] \in {"+", "-"} THEN Tail(t) ELSE t
         IN  IF TrimOf(s, t) /\ AllDigits(d)
             THEN {IF t[1] = "-" THEN -DigitsVal(d) ELSE DigitsVal(d)}
             ELSE {} : a \in 1..Len(s), b \in 1..Len(s)}

\* the raw row a record of the frame was made from
Source(k) == df_raw.rows[df[k].index + 1]

NoId(c) == c.kind = "null" \/ (c.kind = "str" /\ IsBlank(c.s))

\* C7: in the frame transform_data returns there is no record of a row whose
\* id is null, empty or whitespace only, and every id is a non-empty string
\* with no whitespace at its ends.
C7_NoEmptyId ==
  pc = "pg_connect" =>
    /\ \A k \in 1..Len(df) : /\ ~NoId(Source(k).id)
                             /\ df[k].id # <<>>
                             /\ Trimmed(df[k].id)
    /\ \A j \in 1..Len(df_raw.rows) :
         NoId(df_raw.rows[j].id) => \A k \in 1..Len(df) : df[k].index # j - 1

\* a row with a whitespace-only id has been dropped and the id of the row
\* after it has been trimmed
C7_Witness ==
  /\ pc = "pg_connect"
  /\ Len(df_raw.rows) = 2
  /\ df_raw.rows[1].id = Str(<<" ", " ">>)
  /\ df_raw.rows[2].id = Str(<<" ", "a", " ">>)
  /\ Len(df) = 1
  /\ df[1].id = <<"a">>

TextColumns == {"product_name", "payment_method", "customer_type"}

\* C8: each text field of a returned record is the string form of its cell
\* without the whitespace at its ends, or Unknown when that is empty, and is
\* never empty.
C8_TextDefaults ==
  pc = "pg_connect" =>
    \A k \in 1..Len(df) : \A col \in TextColumns :
      LET c == Source(k)[col]
          o == df[k][col]
      IN  /\ o # <<>>
          /\ Trimmed(o)
          /\ c.kind = "str" => IF IsBlank(c.s) THEN o = Unknown ELSE TrimOf(c.s, o)
          /\ c.kind = "num" => TextValues(o) = {c.n}
          /\ c.kind = "null" => o = <<"n", "a", "n">>

\* a whitespace-only product name has become Unknown next to a kept payment
\* method
C8_Witness ==
  /\ pc = "pg_connect"
  /\ \E k \in 1..Len(df) : /\ Source(k).product_name = Str(<<" ">>)
                           /\ df[k].product_name = Unknown
                           /\ df[k].payment_method = <<"c">>

NumericColumns == {"quantity", "total_amount"}

\* the number a cell is coerced to
Coerces(c, o) ==
  /\ o \in Int
  /\ c.kind = "num" => o = c.n
  /\ c.kind = "null" => o = 0
  /\ c.kind = "str" => IF TextValues(c.s) = {} THEN o = 0 ELSE o \in TextValues(c.s)

Examples ==
  {<<Str(<<"b", "a", "d">>), 0>>, <<Str(<<>>), 0>>, <<Null, 0>>,
   <<Str(<<"-">>), 0>>, <<Str(<<"1", " ", "2">>), 0>>, <<Str(<<"3">>), 3>>,
   <<Str(<<" ", "4", "2", " ">>), 42>>, <<Str(<<"-", "5">>), -5>>,
   <<Num(120), 120>>}

\* C9: quantity and total_amount of a returned record are numbers: the value
\* of the cell when it is a number or a numeral, 0 otherwise; every row with
\* an id has its record, and transform_data raises only for missing columns.
C9_NumericCoercion ==
  /\ pc = "Failed" => (err.type = "ValueError" /\ ~(Required \subseteq df_raw.columns))
  /\ pc = "pg_connect" =>
       /\ \A j \in 1..Len(df_raw.rows) :
            ~NoId(df_raw.rows[j].id) => \E k \in 1..Len(df) : df[k].index = j - 1
       /\ \A k \in 1..Len(df) : \A col \in NumericColumns :
            /\ Coerces(Source(k)[col], df[k][col])
            /\ \A e \in Examples : Source(k)[col] = e[1] => df[k][col] = e[2]

\* a quantity that is no numeral has become 0 next to a kept total
C9_Witness ==
  /\ pc = "pg_connect"
  /\ \E k \in 1..Len(df) : /\ Source(k).quantity = Str(<<"b", "a", "d">>)
                           /\ df[k].quantity = 0
                           /\ df[k].total_amount = 9

\* C10 as stated: every record of the frame, every row of the table and
\* every document of the collection has quantity >= 0.
C10_QuantityNonNegative ==
  /\ \A k \in 1..Len(df) : df[k].quantity >= 0
  /\ \A r \in pg.rows : r.quantity >= 0
  /\ \A k \in 1..Len(mongo.docs) : mongo.docs[k].quantity >= 0

NegativeCell(c) ==
  \/ c.kind = "num" /\ c.n < 0
  \/ c.kind = "str" /\ \E v \in TextValues(c.s) : v < 0

\* C10 amended: the quantity of a record is the number of its cell (0 when
\* the cell is no number), negative exactly when the cell is a negative
\* number, and the rows and documents written in the run carry the fields of
\* a record of the frame unchanged.
C10_QuantityCarried ==
  run >= 1 =>
    /\ \A k \in 1..Len(df) : /\ Coerces(Source(k).quantity, df[k].quantity)
                             /\ df[k].quantity < 0 <=> NegativeCell(Source(k).quantity)
    /\ \A r \in pg.rows :
         r.created_at = run => \E k \in 1..Len(df) : Fields(r) = data_tuples(df)[k]
    /\ \A k \in 1..Len(mongo.docs) :
         mongo.docs[k].inserted_at = run =>
           \E j \in 1..Len(df) : Fields(mongo.docs[k]) = data_tuples(df)[j]

\* a negative quantity of the sheet is in both stores
C10_Witness ==
  /\ pc = "Complete"
  /\ \E r \in pg.rows : r.created_at = run /\ r.quantity = -5
  /\ \E k \in 1..Len(mongo.docs) : mongo.docs[k].quantity = -5

----------------------------------------------------------------------------
(* Claims about the schema check and the connections (Spec) *)

\* the calls made on the two stores, in the order of the trace
StoreCalls ==
  SelectSeq(trace, LAMBDA e : e \notin {"extract_from_google_sheets",
                                        "transform_data", "load_to_postgresql",
                                        "load_to_mongodb"})

\* C11: the step of transform_data on a dataset that lacks a required column
\* ends the run Failed with a ValueError that names exactly the absent
\* required columns, with no call on either store and both stores as they
\* were; on a dataset with the six columns (and any others) it passes and
\* every record of the frame has the six columns and no other.
C11_Step ==
  pc = "Transforming" /\ pc' # "Transforming" =>
    IF Required \subseteq df_raw.columns
    THEN /\ pc' = "pg_connect"
         /\ err' = NoError
         /\ \A k \in 1..Len(df') : DOMAIN df'[k] = Required \cup {"index"}
    ELSE /\ pc' = "Failed"
         /\ err'.type = "ValueError"
         /\ {err'.missing[k] : k \in 1..Len(err'.missing)}
              = Required \ df_raw.columns
         /\ Len(err'.missing) = Cardinality(Required \ df_raw.columns)
         /\ StoreCalls' = <<>>
         /\ conn' = "none" /\ client' = "none"
         /\ pg' = pg /\ tx' = tx /\ mongo' = mongo

C11_SchemaCheck ==
  /\ [][C11_Step]_vars
  /\ [](pc = "Failed" /\ err.type = "ValueError"
          => StoreCalls = <<>> /\ conn = "none" /\ client = "none")

\* the sheet without quantity and customer_type has failed over used stores
C11_Witness ==
  /\ pc = "Failed"
  /\ err = [type |-> "ValueError", missing |-> <<"quantity", "customer_type">>]
  /\ "notes" \in df_raw.columns
  /\ pg = LegacyTable
  /\ mongo = LegacyCollection

\* the number of entries e of the trace
Count(e) == Len(SelectSeq(trace, LAMBDA x : x = e))

\* C12: a run connects to each store at most once and closes what it opened
\* at most once; the two connections are never open together, the document
\* connection is opened only after the relational one is closed, a connection
\* is open only inside the stage of its loader, and none is open once the run
\* is Complete or Failed.
C12_ConnectionLifetime ==
  /\ Count("pg.connect") <= 1 /\ Count("mongo.connect") <= 1
  /\ Count("pg.close") <= Count("pg.connect")
  /\ Count("mongo.close") <= Count("mongo.connect")
  /\ ~(conn = "open" /\ client = "open")
  /\ client # "none" => conn = "closed"
  /\ conn = "open" => Stage(pc) = "LoadingRelational"
  /\ client = "open" => Stage(pc) = "LoadingDocument"
  /\ conn = "closed" => Count("pg.close") = 1
  /\ client = "closed" => Count("mongo.close") = 1
  /\ pc \in {"Complete", "Failed"} => conn # "open" /\ client # "open"

\* a run that failed in the document load after both connections were opened
\* and closed
C12_Witness ==
  /\ pc = "Failed"
  /\ conn = "closed" /\ client = "closed"
  /\ Count("pg.connect") = 1 /\ Count("mongo.connect") = 1

----------------------------------------------------------------------------
(* Termination of a run (LiveSpec) *)

\* the number of rows of a sheet that takes two iterations of the batch loop
LoopRows == batch_size + 1

\* a sheet of LoopRows rows with the six columns whose numeric ids repeat
\* with the period of a page, so that an id never comes twice in one page
LoopSheet ==
  [columns |-> Required,
   rows |-> [k \in 1..LoopRows |->
               [id |-> Num(((k - 1) % page_size) + 1), quantity |-> Num(k),
                product_name |-> Str(<<"w">>), total_amount |-> Num(2 * k),
                payment_method |-> Str(<<"c">>),
                customer_type |-> Str(<<"r">>)]]]

\* the last run of the pipeline on LoopSheet at the call of
\* load_to_postgresql, every earlier run having failed in the extraction,
\* over a collection that has its unique index
InitLoop ==
  /\ sheet = LoopSheet
  /\ pc = "pg_connect"
  /\ run = MaxRuns
  /\ df_raw = LoopSheet
  /\ df = transformed(LoopSheet)
  /\ err = NoError
  /\ pg \in {NoTable, LegacyTable}
  /\ tx = pg
  /\ conn = "none"
  /\ i = 0
  /\ batches = <<>>
  /\ mongo = LegacyCollection
  /\ client = "none"
  /\ records = <<>>
  /\ trace = <<"extract_from_google_sheets", "transform_data",
               "load_to_postgresql">>
  /\ log = [k \in 1..(MaxRuns - 1) |-> "FAILED"]

\* the sheets of one row, two sheets of two rows (one id twice, two ids), the
\* sheet without two of the columns and the empty sheet
LiveSheets ==
  {Frame(AllCols, <<r>>) : r \in PipeRows}
    \cup {Frame(AllCols, <<RowA, RowA2>>), Frame(AllCols, <<RowA, RowB>>),
          Frame(AllCols \ {"quantity", "customer_type"}, <<RowA>>), NoFrame}

\* the pipeline before its first run on one of LiveSheets, or in its last run
\* on LoopSheet
InitLive ==
  \/ /\ Idle
     /\ sheet \in LiveSheets
     /\ pg \in {NoTable, LegacyTable}
     /\ tx = pg
     /\ mongo \in {EmptyCollection, LegacyCollection}
  \/ InitLoop

\* the steps of a started run other than the two below
RunSteps ==
  \/ extract_from_google_sheets
  \/ transform_data
  \/ pg_connect
  \/ pg_drop
  \/ pg_create
  \/ pg_commit
  \/ pg_finish
  \/ mongo_connect
  \/ mongo_delete
  \/ mongo_index

\* weak fairness of pg_batch, with ENABLED <<pg_batch>>_vars written as the
\* guard of the action
pg_batch_returns ==
  []<>~(pc = "pg_batch" /\ i < Len(df)) \/ []<><<pg_batch>>_vars

\* weak fairness of mongo_insert, with ENABLED <<mongo_insert>>_vars written
\* as the guard of the action
mongo_insert_returns ==
  []<>~(pc = "mongo_insert") \/ []<><<mongo_insert>>_vars

\* the pipeline under the assumption that every call of a run returns or
\* raises: no run waits for ever in a step
LiveSpec ==
  /\ InitLive
  /\ [][Next]_vars
  /\ WF_vars(RunSteps)
  /\ pg_batch_returns
  /\ mongo_insert_returns

Running == pc \notin {"Idle", "Complete", "Failed"}

Terminal == pc \in {"Complete", "Failed"}

\* extraction, transformation, relational load and document load of the run
\* have all returned without an exception
AllSucceeded ==
  /\ err = NoError
  /\ Count("transform_data") = 1
  /\ Count("load_to_postgresql") = 1
  /\ Count("load_to_mongodb") = 1
  /\ Count("mongo.create_index") = 1

\* C13: if every call returns, a started run reaches Complete or Failed; a
\* finished run has written exactly one closing line, COMPLETED exactly when
\* it is Complete; the run is Complete exactly when the four stages all
\* succeeded; and the batch loop makes at most ceil(n / batch_size)
\* iterations on n records.
C13_Terminates ==
  /\ Running ~> Terminal
  /\ [](Terminal => /\ Len(log) = run
                     /\ pc = "Complete" <=> log[run] = "COMPLETED")
  /\ [](pc = "Complete" <=> AllSucceeded)
  /\ [](Len(batches) <= (Len(df) + batch_size - 1) \div batch_size)

\* a run whose batch loop made two iterations has ended
C13_Witness ==
  /\ Terminal
  /\ Len(df) = LoopRows
  /\ Len(batches) = 2
  /\ Count("load_to_mongodb") = 1

----------------------------------------------------------------------------
(* Claims about records of the same id *)

\* the records that the next iteration of the batch loop sends
NextBatch ==
  LET tuples == data_tuples(df)
      range == batch_range(Len(tuples), i)
  IN  SubSeq(tuples, range[1], range[2])

\* C14 as stated: the store does not reject the upsert of a batch in which
\* records share an id, and the batch leaves exactly one row for each of its
\* ids, with the fields of the last record of the id.
C14_DuplicatesUpserted ==
  pc = "pg_batch" /\ i < Len(df) =>
    LET done == execute_values([ok |-> TRUE, rows |-> tx.rows], NextBatch, run)
    IN  /\ done.ok
        /\ \A id \in SeqIds(NextBatch) :
             /\ Cardinality({r \in done.rows : r.id = id}) = 1
             /\ \A r \in done.rows :
                  r.id = id => Fields(r) = LastOf(NextBatch, id)

----------------------------------------------------------------------------
(* load_to_mongodb alone, on frames with and without repeated ids (SpecM) *)

\* the frames transform_data returns on the sheets of the pipeline
MongoFrames ==
  {transformed(sh) : sh \in {d \in PipeSheets : Required \subseteq d.columns}}

\* the collection before the call: new, left by a completed run, left empty
\* with its index by a run that failed in insert_many, and left without index
\* by a first run whose create_index failed on two documents of one id
MongoCollections ==
  {EmptyCollection,
   LegacyCollection,
   [LegacyCollection EXCEPT !.docs = <<>>],
   [docs |-> stamped(<<LegacyRow, LegacyRow>>, 0), unique |-> FALSE]}

InitM ==
  /\ df \in MongoFrames
  /\ mongo \in MongoCollections
  /\ sheet = NoFrame
  /\ pc = "mongo_connect"
  /\ run = 1
  /\ df_raw = NoFrame
  /\ err = NoError
  /\ pg = NoTable
  /\ tx = pg
  /\ conn = "none"
  /\ i = 0
  /\ batches = <<>>
  /\ client = "none"
  /\ records = <<>>
  /\ trace = <<"load_to_mongodb">>
  /\ log = <<>>

NextM ==
  \/ mongo_connect
  \/ mongo_delete
  \/ mongo_insert
  \/ mongo_index

SpecM == InitM /\ [][NextM]_vars

\* two records of the frame have the same id
HasDuplicates == Cardinality(SeqIds(df)) < Len(df)

\* the last call the loader made on the collection or the client
LastCall ==
  LET calls == SelectSeq(trace, LAMBDA e : e \notin {"load_to_mongodb",
                                                     "mongo.close"})
  IN  IF calls = <<>> THEN "none" ELSE calls[Len(calls)]

\* C15: on a frame in which two records share an id load_to_mongodb never
\* returns normally, whatever the collection was before the call: insert_many
\* gets through only when the collection has no unique index, then every
\* record has been written (none dropped as a duplicate) and create_index is
\* what fails; the run has failed in one of the calls of the loader.
C15_DuplicatesRejected ==
  HasDuplicates =>
    /\ pc # "Complete"
    /\ pc = "mongo_index" => ~mongo.unique /\ mongo.docs = records
    /\ pc = "Failed" =>
         /\ err.type = "PyMongoError"
         /\ LastCall \in {"mongo.connect", "mongo.delete_many",
                           "mongo.insert_many", "mongo.create_index"}
         /\ mongo.unique => LastCall # "mongo.create_index"

\* the insert of two records of one id got through and create_index failed
C15_Witness ==
  /\ HasDuplicates
  /\ pc = "Failed"
  /\ LastCall = "mongo.create_index"
  /\ ~mongo.unique
  /\ Len(mongo.docs) = Len(df)
  /\ \A k \in 1..Len(mongo.docs) : mongo.docs[k].inserted_at = run

\* the calls of the loader on the client and the collection, in their order
MongoSteps ==
  <<"mongo.connect", "mongo.delete_many", "mongo.insert_many",
    "mongo.create_index">>

MongoCalls ==
  SelectSeq(trace, LAMBDA e : \E k \in 1..Len(MongoSteps) : e = MongoSteps[k])

\* C16: the calls of one run of the loader are connect, delete_many,
\* insert_many, create_index in this order, each made once and only after the
\* one before it returned; a failed call is the last one; when delete_many
\* failed no insert was attempted and the collection is untouched; when
\* insert_many failed create_index was not attempted and the collection holds
\* only documents of this run, the first ones of its records (possibly none).
C16_DocumentSteps ==
  /\ MongoCalls = SubSeq(MongoSteps, 1, Len(MongoCalls))
  /\ pc = "mongo_delete" => LastCall = "mongo.connect"
  /\ pc = "mongo_insert" => LastCall = "mongo.delete_many" /\ mongo.docs = <<>>
  /\ pc = "mongo_index" => LastCall = "mongo.insert_many"
  /\ pc = "Complete" => LastCall = "mongo.create_index"
  /\ pc = "Failed" /\ LastCall = "mongo.delete_many" =>
       Count("mongo.insert_many") = 0 /\ mongo \in MongoCollections
  /\ pc = "Failed" /\ LastCall = "mongo.insert_many" =>
       /\ Count("mongo.create_index") = 0
       /\ Len(mongo.docs) <= Len(records)
       /\ mongo.docs = SubSeq(records, 1, Len(mongo.docs))
       /\ \A k \in 1..Len(mongo.docs) : mongo.docs[k].inserted_at = run

\* insert_many failed on the second of two records over a collection that has
\* the unique index of an earlier run
C16_Witness ==
  /\ pc = "Failed"
  /\ LastCall = "mongo.insert_many"
  /\ mongo.unique
  /\ Len(records) = 2
  /\ Len(mongo.docs) = 1
  /\ mongo.docs[1].inserted_at = run

----------------------------------------------------------------------------
(* Claims about a failed connect and about created_at *)

\* C17: a step in which psycopg2.connect or MongoClient fails leaves the
\* table, the open transaction and the collection exactly as they were, opens
\* no connection, is the last call of the run on a store (no drop, delete or
\* write follows) and ends the run Failed with the error of the call.
C17_Step ==
  /\ (pc = "pg_connect" /\ conn' # "open" /\ pc' # pc) =>
       /\ pc' = "Failed"
       /\ err'.type = "psycopg2.Error"
       /\ pg' = pg /\ tx' = tx /\ mongo' = mongo
       /\ conn' = "none" /\ client' = "none"
       /\ StoreCalls' = <<"pg.connect">>
  /\ (pc = "mongo_connect" /\ client' # "open" /\ pc' # pc) =>
       /\ pc' = "Failed"
       /\ err'.type = "PyMongoError"
       /\ pg' = pg /\ tx' = tx /\ mongo' = mongo
       /\ client' = "none"
       /\ StoreCalls' = Append(StoreCalls, "mongo.connect")
  /\ (pc = "Failed" /\ pc' = "Failed") =>
       pg' = pg /\ mongo' = mongo /\ StoreCalls' = StoreCalls

C17_ConnectFailFast == [][C17_Step]_vars

\* the document connect failed over a used collection after the relational
\* load of the run
C17_Witness ==
  /\ pc = "Failed"
  /\ client = "none"
  /\ StoreCalls # <<>>
  /\ StoreCalls[Len(StoreCalls)] = "mongo.connect"
  /\ mongo = LegacyCollection
  /\ pg.rows # {}

\* the pipeline on LiveSheets and on LoopSheet, without fairness
SpecLoop == InitLive /\ [][Next]_vars

\* C18 as stated: the created_at of a row is that of the first insert of its
\* id, also when a later run loads the id again: after a first run that
\* completed, the rows the second run of the same sheet has loaded still have
\* the created_at of the first run.
C18_CreatedAtPreserved ==
  (run = 2 /\ log = <<"COMPLETED">> /\ PgReturned) =>
    \A r \in pg.rows : r.created_at = 1

\* the id and created_at of every row
Stamps(rows) == {<<r.id, r.created_at>> : r \in rows}

\* C18 amended: an iteration of the batch loop keeps every row of the open
\* transaction with its id and created_at, gives the rows of the ids of the
\* batch the five fields of the last record of their id and leaves the other
\* rows as they are; and every commit that puts rows in the table puts rows
\* whose created_at is that of the current run, because the run has dropped
\* the table: created_at is not carried over from an earlier run.
C18_Step ==
  /\ (pc = "pg_batch" /\ pc' = "pg_batch" /\ i' > i) =>
       /\ Stamps(tx.rows) \subseteq Stamps(tx'.rows)
       /\ \A r \in tx'.rows :
            IF r.id \in SeqIds(NextBatch)
            THEN Fields(r) = LastOf(NextBatch, r.id)
            ELSE r \in tx.rows
  /\ (pg' # pg) => \A r \in pg'.rows : r.created_at = run

C18_CreatedAtOfRun == [][C18_Step]_vars

\* the second batch of LoopSheet has been upserted on the rows of the first
C18_Witness ==
  /\ Len(df) = LoopRows
  /\ pc = "pg_batch"
  /\ i >= Len(df)
  /\ Cardinality(tx.rows) = page_size
  /\ \E r \in tx.rows : r.quantity = LoopRows /\ r.created_at = run

----------------------------------------------------------------------------
(* Claims about the order of the records (SpecT) and the commits (SpecPG) *)

\* the positions of the rows of the dataset that have an id
WithId == {j \in 1..Len(df_raw.rows) : ~NoId(df_raw.rows[j].id)}

\* C19: the frame transform_data returns has one record for each row of the
\* dataset that has an id, in the order of the rows: the count is the number
\* of rows less the rows without id, the records come in increasing row
\* position, every row with an id has its record, also when another row has
\* the same id, and each record is the cleaned form of its own row.
C19_OrderKept ==
  pc = "pg_connect" =>
    /\ Len(df) = Len(df_raw.rows) - Cardinality({j \in 1..Len(df_raw.rows) :
                                                   NoId(df_raw.rows[j].id)})
    /\ \A k \in 1..(Len(df) - 1) : df[k].index < df[k + 1].index
    /\ {df[k].index + 1 : k \in 1..Len(df)} = WithId
    /\ \A k \in 1..Len(df) :
         /\ TrimOf(astype_str(Source(k).id), df[k].id)
         /\ Coerces(Source(k).quantity, df[k].quantity)

\* two rows of the same id after trimming are both kept, in their order
C19_Witness ==
  /\ pc = "pg_connect"
  /\ Len(df) = 2
  /\ df[1].id = df[2].id
  /\ df[1].index = 0 /\ df[2].index = 1
  /\ df[1].quantity # df[2].quantity

\* load_to_postgresql has exited, by return or by exception
PgExited == pc \in {"mongo_connect", "Failed"}

\* the commit after DROP and CREATE has been made
FirstCommitted ==
  \E k \in 1..Len(trace) :
    /\ trace[k] = "pg.commit"
    /\ k < Len(trace) => trace[k + 1] # "pg.rollback"

\* C20: the table changes only in the commit after DROP and CREATE, which
\* leaves it empty, and in the commit after the last batch, which puts the
\* whole transaction in it; so once the loader has exited the table, if the
\* first commit was made, has a row for every id of the input (after a
\* return) or no row at all (after a failure), and if it was not made the
\* table is what it was before the call.
C20_Step ==
  /\ pg' # pg =>
       \/ pc = "pg_commit" /\ pc' = "pg_batch" /\ pg' = EmptyTable
       \/ /\ pc = "pg_batch" /\ pc' = "mongo_connect"
          /\ i >= Len(df)
          /\ pg' = tx
  /\ ~FirstCommitted' => pg' = pg

C20_AllOrNothing ==
  /\ [][C20_Step]_vars
  /\ [](PgExited =>
          IF FirstCommitted
          THEN /\ pg.exists
               /\ IF pc = "Failed" THEN pg.rows = {}
                  ELSE /\ Ids(pg.rows) = SeqIds(df)
                       /\ Len(df) > 0 => pg.rows # {}
          ELSE pg \in {NoTable, LegacyTable})

\* the commit after the last of several batches failed and left the table
\* empty
C20_Witness ==
  /\ pc = "Failed"
  /\ Len(batches) >= 2
  /\ Len(trace) >= 3
  /\ trace[Len(trace) - 2] = "pg.commit"
  /\ pg = EmptyTable

====
